---- MODULE Spec2Model ----
(***************************************************************************)
(* Model of smallvcm.cxx: the render() harness that builds one renderer    *)
(* per OpenMP thread, runs the iterations in an "omp parallel for" loop,   *)
(* merges the per-renderer framebuffers into the caller's framebuffer and  *)
(* normalises it, and the part of main() that calls render() repeatedly    *)
(* on one Config / Framebuffer.                                            *)
(*                                                                         *)
(* Pixel values are floats in the program.  They are modelled as extended  *)
(* rationals [n, d]: d > 0 is the finite value n/d in lowest terms, and    *)
(* d = 0 is +inf (n = 1), -inf (n = -1) or NaN (n = 0), which is what      *)
(* IEEE arithmetic yields for 1.f / 0 and for 0 * inf.  Rounding of finite *)
(* values is not modelled.                                                 *)
(***************************************************************************)
EXTENDS Integers, FiniteSets, Sequences, TLC

\* ---------------------------------------------------------------- bounds
MaxIterations == 3
MaxThreads == 3
BatchMaxIterations == 2
BatchMaxThreads == 2
MaxRuns == 2

\* Values of Config::mBaseSeed and Config::mMaxPathLength tried.
BaseSeeds == {1, 4}
PathLengths == {2, 10}

\* What a renderer's constructor leaves in mMaxPathLength.  The constructors
\* are not part of this file; the value is one the configured bound may
\* (2) or may not (10) coincide with.
DefaultPathLengths == {2}
NumPixels == 2

\* ------------------------------------------------- Config::Algorithm enum
kEyeLight == 0
kPathTracing == 1
kLightTracing == 2
kProgressivePhotonMapping == 3
kBidirectionalPhotonMapping == 4
kBidirectionalPathTracing == 5
kVertexConnectionMerging == 6
kAlgorithmMax == 7

\* The selectors main() passes to render(): algId < kAlgorithmMax.
Algorithms == 0 .. (kAlgorithmMax - 1)

\* ------------------------------------------------------ float arithmetic
Abs(x) == IF x < 0 THEN -x ELSE x

Sign(x) == IF x < 0 THEN -1 ELSE IF x = 0 THEN 0 ELSE 1

RECURSIVE GCD(_, _)
GCD(a, b) == IF b = 0 THEN a ELSE GCD(b, a % b)

\* The float with value n/d (d >= 0); n/0 is an infinity or NaN.
Float(n, d) ==
    IF d = 0 THEN [n |-> Sign(n), d |-> 0]
    ELSE LET g == GCD(Abs(n), d) IN [n |-> n \div g, d |-> d \div g]

FloatOfInt(k) == Float(k, 1)

FloatMul(a, b) == Float(a.n * b.n, a.d * b.d)

FloatAdd(a, b) ==
    IF a.d # 0 /\ b.d # 0 THEN Float(a.n * b.d + b.n * a.d, a.d * b.d)
    ELSE IF a.d = 0 /\ b.d = 0
         THEN (IF a.n = b.n THEN a ELSE [n |-> 0, d |-> 0])
    ELSE IF a.d = 0 THEN a ELSE b

\* 1.f / k for an int k
FloatInverse(k) == IF k < 0 THEN Float(-1, -k) ELSE Float(1, k)

IsFinite(a) == a.d # 0

Pixels == 1 .. NumPixels

\* ------------------------------------------------- Framebuffer operations
\* Framebuffer::Add: elementwise addition of another framebuffer.
Add(fb, other) == [p \in Pixels |-> FloatAdd(fb[p], other[p])]

\* Framebuffer::Scale: every element multiplied by the factor.
Scale(fb, factor) == [p \in Pixels |-> FloatMul(fb[p], factor)]

\* ---------------------------------------------------------------- state
VARIABLES
    config,         \* main's Config object, passed to render by reference
    fbuffer,        \* main's Framebuffer, *config.mFramebuffer
    pc,             \* position of the main thread in main / render
    renderers,      \* render's array of AbstractRenderer*, slot -> instance
    iterations,     \* render's local iteration count
    team,           \* number of threads of the parallel region
    todo,           \* loop indices not yet handed to a thread
    running,        \* thread -> index whose body it is executing, or -1
    log,            \* RunIteration calls made in this run
    nCalls,         \* number of RunIteration calls made in this run
    i,              \* loop variable of the merge loop
    usedRenderers,  \* render's local counter of merged renderers
    algorithmMask,  \* main's algorithmMask: the algorithms it renders
    runLimit,       \* number of render calls the driver makes
    runs,           \* render calls completed so far
    earlier,        \* a completed run kept for comparison, or << >>
    fbAtCall,       \* content of fbuffer when render was called
    now,            \* value clock() returns, counted from the call of render
    startT,         \* render's local startT
    endT,           \* render's local endT
    time,           \* main's local time, the value render returned
    name,           \* result of Config::GetName in the current loop body
    acronym,        \* result of Config::GetAcronym in the current loop body
    tableIndex,     \* index of the last read of an algorithmNames table
    sceneId2,       \* loop variable of main's scene loop
    algId,          \* loop variable of main's algorithm loop
    glossy,         \* whether mask has Scene::kGlossyFloor set
    heading,        \* the <h2> heading written for the scene pass
    passCalls,      \* render calls made in the current scene pass
    passes          \* the scene passes completed so far

timerVars == <<now, startT, endT, time>>

lookupVars == <<name, acronym, tableIndex>>

sweepVars == <<sceneId2, algId, glossy, heading, passCalls, passes>>

vars == <<config, fbuffer, pc, renderers, iterations, team, todo, running,
          log, nCalls, i, usedRenderers, algorithmMask, runLimit, runs, earlier,
          fbAtCall, timerVars, lookupVars, sweepVars>>

Slots == 0 .. (config.mNumThreads - 1)

Threads == 0 .. (team - 1)

Idle == -1

\* startT / endT before clock() has been read into them.
NotRead == -1

\* tableIndex when the last lookup read no table entry.
NoIndex == -1

\* ------------------------------------------------------------- renderers
\* Renderer family and transport mode built by each case of the switch.
RendererKind(alg) ==
    IF alg = kEyeLight THEN "EyeLight"
    ELSE IF alg = kPathTracing THEN "PathTracer"
    ELSE IF alg = kLightTracing THEN "VertexCM::kLightTrace"
    ELSE IF alg = kProgressivePhotonMapping THEN "VertexCM::kPpm"
    ELSE IF alg = kBidirectionalPhotonMapping THEN "VertexCM::kBpm"
    ELSE IF alg = kBidirectionalPathTracing THEN "VertexCM::kBpt"
    ELSE "VertexCM::kVcm"

\* Whether the constructor call of the case passes a seed argument.
PassesSeed(alg) == alg # kEyeLight

\* Every slot given the base seed itself.
SeedArgumentShared(base, s) == base

\* The seed argument of the constructor call for slot s.
SeedArgument(base, s) == base + s

\* new EyeLight / PathTracer / VertexCM for slot s; d is the path-length
\* bound the constructor leaves in the new object.
NewRenderer(alg, base, s, d) ==
    [ alive          |-> TRUE,
      created        |-> 1,
      deleted        |-> 0,
      kind           |-> RendererKind(alg),
      seeded         |-> PassesSeed(alg),
      seed           |-> IF PassesSeed(alg) THEN SeedArgument(base, s) ELSE 0,
      mMaxPathLength |-> d,
      used           |-> FALSE,
      partial        |-> [p \in Pixels |-> 0] ]

\* A slot of the array that no case of the switch has assigned: the pointer
\* is uninitialised and what it points to is not a renderer.
Unconstructed(d) ==
    [ alive          |-> FALSE,
      created        |-> 0,
      deleted        |-> 0,
      kind           |-> "none",
      seeded         |-> FALSE,
      seed           |-> 0,
      mMaxPathLength |-> d,
      used           |-> FALSE,
      partial        |-> [p \in Pixels |-> 0] ]

\* Slot s of the array after the switch of lines 82-120, which has a case
\* for each of the seven algorithms and no default.
SlotAfterSwitch(alg, base, s, d) ==
    IF alg \in Algorithms THEN NewRenderer(alg, base, s, d)
                           ELSE Unconstructed(d)

\* The iteration count left as configured for every algorithm.
EffectiveIterationsAsConfigured(alg, n) == n

\* The local iteration count after the switch.
EffectiveIterations(alg, n) == IF alg = kEyeLight THEN 1 ELSE n

\* Contribution of one RunIteration call to the renderer's accumulator: a
\* function of the renderer's seed and of the iteration index only.
Sample(r, iter) ==
    LET x == (IF r.seeded THEN r.seed ELSE 0) + iter
    IN  [p \in Pixels |-> IF p % 2 = 1 THEN 2 * x ELSE (30 - 2 * x) % 8]

\* AbstractRenderer::RunIteration: adds the iteration's samples to the
\* renderer's own framebuffer and marks the renderer used.
RunIteration(r, iter) ==
    [r EXCEPT !.used = TRUE,
              !.partial = [p \in Pixels |-> r.partial[p] + Sample(r, iter)[p]]]

\* AbstractRenderer::WasUsed
WasUsed(r) == r.used

\* AbstractRenderer::GetFramebuffer: the accumulated buffer, copied out.
GetFramebuffer(r) == [p \in Pixels |-> FloatOfInt(r.partial[p])]

\* ------------------------------------------------ Config::GetName, GetAcronym
algorithmNames ==
    << "Eye Light (L.N, DotLN)", "Path Tracing", "Light Tracing",
       "Progressive Photon Mapping", "Bidirectional Photon Mapping",
       "Bidirectional Path Tracing", "Vertex Connection Merging" >>

algorithmAcronyms == << "el", "pt", "lt", "ppm", "bpm", "bpt", "vcm" >>

\* Lines 48 and 58: the selectors for which the "unknown" string is returned.
Rejected(alg) == alg < 0 \/ alg > 7

\* The index with which the table is read, if it is read at all.
TableIndex(alg) == IF Rejected(alg) THEN NoIndex ELSE alg

\* What a read behind the end of a table can yield: some other string of
\* the program's data, or a pointer that faults when it is printed.
BeyondTable == {"<other data>", "<fault>"}

\* The possible results of a lookup in a 7-entry table (C++ index alg is
\* entry alg + 1 here).
Lookup(table, unknown, alg) ==
    IF Rejected(alg) THEN {unknown}
    ELSE IF alg + 1 \in DOMAIN table THEN {table[alg + 1]}
    ELSE BeyondTable

\* Config::GetName, lines 36-51.
GetName(alg) == Lookup(algorithmNames, "Uknown algorithm", alg)

\* Config::GetAcronym, lines 53-61.
GetAcronym(alg) == Lookup(algorithmAcronyms, "uknown", alg)

\* main, lines 218-226: the scene built from the mask of configuration
\* sceneId, with or without Scene::kGlossyFloor.
LoadCornellBox(sceneId, glossyFloor) ==
    [sceneId |-> sceneId, glossy |-> glossyFloor]

\* ------------------------------------------------------------------ Init
InitialFramebuffers ==
    { [p \in Pixels |-> FloatOfInt(0)], [p \in Pixels |-> FloatOfInt(p)] }

InitWith(iters, threads, seeds, lengths, fbs, mask, limit, start) ==
    /\ config \in [ mAlgorithm     : {kEyeLight},
                    mIterations    : iters,
                    mNumThreads    : threads,
                    mBaseSeed      : seeds,
                    mMaxPathLength : lengths,
                    mScene         : {LoadCornellBox(0, FALSE)},
                    mFramebuffer   : {"fbuffer"} ]
    /\ fbuffer \in fbs
    /\ pc = start
    /\ renderers = << >>
    /\ iterations = 0
    /\ team = 0
    /\ todo = {}
    /\ running = << >>
    /\ log = {}
    /\ nCalls = 0
    /\ i = 0
    /\ usedRenderers = 0
    /\ algorithmMask = mask
    /\ runLimit = limit
    /\ runs = 0
    /\ earlier = << >>
    /\ fbAtCall = fbuffer
    /\ now = 0
    /\ startT = NotRead
    /\ endT = NotRead
    /\ time = NotRead
    /\ name = ""
    /\ acronym = ""
    /\ tableIndex = NoIndex
    /\ sceneId2 = 0
    /\ algId = 0
    /\ glossy = FALSE
    /\ heading = ""
    /\ passCalls = 0
    /\ passes = {}

Init ==
    InitWith(0 .. MaxIterations, 1 .. MaxThreads, BaseSeeds, PathLengths,
             InitialFramebuffers, Algorithms, 1, "main")

\* --------------------------------------------------------------- actions
\* Every step of render takes processor time.
TimePasses == now' = now + 1

\* main, lines 240-243: set the selector, print GetName() and call
\* render(config).  A name read behind the table may fault when printed.
Call(alg) ==
    /\ pc = "main"
    /\ config' = [config EXCEPT !.mAlgorithm = alg]
    /\ \E str \in GetName(alg) :
         /\ name' = str
         /\ pc' = IF str = "<fault>" THEN "crashed" ELSE "construct"
    /\ tableIndex' = TableIndex(alg)
    /\ log' = {}
    /\ nCalls' = 0
    /\ fbAtCall' = fbuffer
    /\ now' = 0
    /\ startT' = NotRead
    /\ endT' = NotRead
    /\ time' = NotRead
    /\ acronym' = ""
    /\ UNCHANGED <<fbuffer, renderers, iterations, team, todo, running, i,
                   usedRenderers, algorithmMask, runLimit, runs, earlier>>

\* main, lines 237-243: render is called for an enabled algorithm.
CallRender ==
    /\ runs < runLimit
    /\ \E alg \in Algorithms :
         /\ alg \in algorithmMask
         /\ Call(alg)
    /\ UNCHANGED sweepVars

\* A switch that writes the forced budget into the caller's configuration.
ConfigAfterSwitchForced(c) ==
    IF c.mAlgorithm = kEyeLight THEN [c EXCEPT !.mIterations = 1] ELSE c

\* render, lines 73 and 81-88: aConfig is a const reference and the forced
\* budget is assigned to the local iterations only.
ConfigAfterSwitch(c) == c

\* render, lines 75-120: allocate the array, take the iteration count and
\* construct one renderer per slot in the case of the selected algorithm.
Construct ==
    /\ pc = "construct"
    /\ \E d \in DefaultPathLengths :
         renderers' = [s \in Slots |->
                         SlotAfterSwitch(config.mAlgorithm, config.mBaseSeed,
                                         s, d)]
    /\ iterations' = EffectiveIterations(config.mAlgorithm, config.mIterations)
    /\ config' = ConfigAfterSwitch(config)
    /\ pc' = "setup"
    /\ UNCHANGED <<fbuffer, team, todo, running, log, nCalls, i,
                   usedRenderers, algorithmMask, runLimit, runs,
                   earlier, fbAtCall>>
    /\ TimePasses
    /\ UNCHANGED <<startT, endT, time, lookupVars, sweepVars>>

\* The loop of lines 122-123 started at slot 1.
PathLengthSlotsFromOne == Slots \ {0}

\* The slots the loop of lines 122-123 visits.
PathLengthSlots == Slots

\* render, lines 122-123: copy the configured path-length bound.
ApplyMaxPathLength ==
    /\ pc = "setup"
    /\ renderers' = [s \in Slots |->
                       IF s \in PathLengthSlots
                       THEN [renderers[s] EXCEPT
                               !.mMaxPathLength = config.mMaxPathLength]
                       ELSE renderers[s]]
    /\ pc' = "fork"
    /\ UNCHANGED <<config, fbuffer, iterations, team, todo, running, log,
                   nCalls, i, usedRenderers, algorithmMask, runLimit, runs,
                   earlier, fbAtCall>>
    /\ TimePasses
    /\ UNCHANGED <<startT, endT, time, lookupVars, sweepVars>>

\* The loop of line 127 with the bound written iter <= iterations.
IterationSpaceInclusive(n) == 0 .. n

\* The values of iter the loop of line 127 takes.
IterationSpace(n) == 0 .. (n - 1)

\* The team sizes of a runtime that may add a thread to the requested
\* number.
TeamSizesBeyondRequest(n) == 1 .. (n + 1)

\* render, lines 75 and 126: omp_set_num_threads(n) makes n the upper limit
\* of the team of the parallel region; the runtime may give fewer threads.
TeamSizes(n) == 1 .. n

\* render, lines 125-127: start the clock and enter the parallel region.
\* omp_set_num_threads(mNumThreads) caps the team; the runtime may give
\* fewer threads.
Fork ==
    /\ pc = "fork"
    /\ \E t \in TeamSizes(config.mNumThreads) :
         /\ team' = t
         /\ running' = [th \in 0 .. (t - 1) |-> Idle]
    /\ todo' = IterationSpace(iterations)
    /\ pc' = "dispatch"
    /\ UNCHANGED <<config, fbuffer, renderers, iterations, log, nCalls, i,
                   usedRenderers, algorithmMask, runLimit, runs,
                   earlier, fbAtCall>>
    /\ startT' = now
    /\ TimePasses
    /\ UNCHANGED <<endT, time, lookupVars, sweepVars>>

\* The renderer chosen by the index instead of by the thread.
RendererSlotByIndex(threadId, iter) == iter % config.mNumThreads

\* The slot a thread uses for an index: renderers[omp_get_thread_num()].
RendererSlot(threadId, iter) == threadId

\* render, lines 127-130: a thread of the team is given an index of the
\* loop and calls RunIteration(iter) on renderers[threadId].
StartIteration(threadId, iter) ==
    /\ pc = "dispatch"
    /\ running[threadId] = Idle
    /\ iter \in todo
    /\ todo' = todo \ {iter}
    /\ running' = [running EXCEPT ![threadId] = iter]
    /\ log' = log \cup {[iter |-> iter, threadId |-> threadId,
                         slot |-> RendererSlot(threadId, iter)]}
    /\ nCalls' = nCalls + 1
    /\ UNCHANGED <<config, fbuffer, pc, renderers, iterations, team, i,
                   usedRenderers, algorithmMask, runLimit, runs,
                   earlier, fbAtCall>>
    /\ TimePasses
    /\ UNCHANGED <<startT, endT, time, lookupVars, sweepVars>>

\* render, line 130: the RunIteration call of a thread returns.
FinishIteration(threadId) ==
    /\ pc = "dispatch"
    /\ running[threadId] # Idle
    /\ LET iter == running[threadId]
           s == RendererSlot(threadId, iter)
       IN  renderers' = [renderers EXCEPT ![s] = RunIteration(@, iter)]
    /\ running' = [running EXCEPT ![threadId] = Idle]
    /\ UNCHANGED <<config, fbuffer, pc, iterations, team, todo, log, nCalls,
                   i, usedRenderers, algorithmMask, runLimit, runs,
                   earlier, fbAtCall>>
    /\ TimePasses
    /\ UNCHANGED <<startT, endT, time, lookupVars, sweepVars>>

\* A barrier that waits for mNumThreads threads although the team may be
\* smaller.
BarrierReachedFullTeam ==
    /\ todo = {}
    /\ \A th \in Slots : th \in DOMAIN running /\ running[th] = Idle

\* A loop end that waits only for the indices to be handed out (nowait).
BarrierReachedNoWait == todo = {}

\* The second clock() call placed after the merge and the normalisation.
ClockEndReadAfterMerge == "normalize"

\* Line 132: endT is read right after the parallel loop.
ClockEndRead == "join"

\* What the end of the parallel region waits for.
BarrierReached == /\ todo = {}
                  /\ \A th \in Threads : running[th] = Idle

\* render, lines 131-134: the implicit barrier at the end of the parallel
\* loop, then the clock is read and the merge starts.
Join ==
    /\ pc = "dispatch"
    /\ BarrierReached
    /\ pc' = "merge"
    /\ i' = 0
    /\ usedRenderers' = 0
    /\ UNCHANGED <<config, fbuffer, renderers, iterations, team, todo,
                   running, log, nCalls, algorithmMask, runLimit, runs, earlier,
                   fbAtCall>>
    /\ endT' = (IF ClockEndRead = "join" THEN now ELSE endT)
    /\ TimePasses
    /\ UNCHANGED <<startT, time, lookupVars, sweepVars>>

\* A merge that adds the first used renderer to the previous content.
MergedAlwaysAdd(fb, r, used) == Add(fb, GetFramebuffer(r))

\* The framebuffer after one renderer has been merged into it.
Merged(fb, r, used) ==
    IF used = 0 THEN GetFramebuffer(r) ELSE Add(fb, GetFramebuffer(r))

\* The merge loop without the WasUsed() test.
ContributesAlways(r) == TRUE

\* Line 137: a renderer is merged unless WasUsed() is false.
Contributes(r) == WasUsed(r)

\* render, lines 135-149: one pass of the merge loop.
MergeStep ==
    /\ pc = "merge"
    /\ i < config.mNumThreads
    /\ IF Contributes(renderers[i])
       THEN /\ fbuffer' = Merged(fbuffer, renderers[i], usedRenderers)
            /\ usedRenderers' = usedRenderers + 1
       ELSE UNCHANGED <<fbuffer, usedRenderers>>
    /\ i' = i + 1
    /\ UNCHANGED <<config, pc, renderers, iterations, team, todo, running,
                   log, nCalls, algorithmMask, runLimit, runs,
                   earlier, fbAtCall>>
    /\ TimePasses
    /\ UNCHANGED <<startT, endT, time, lookupVars, sweepVars>>

\* Normalisation by the number of threads instead of the used renderers.
DivisorAllThreads(used, threads) == threads

\* The divisor of the normalisation.
Divisor(used, threads) == used

\* render, line 151: Scale(1.f / usedRenderers).
Normalize ==
    /\ pc = "merge"
    /\ i >= config.mNumThreads
    /\ fbuffer' = Scale(fbuffer,
                        FloatInverse(Divisor(usedRenderers, config.mNumThreads)))
    /\ pc' = "teardown"
    /\ UNCHANGED <<config, renderers, iterations, team, todo, running, log,
                   nCalls, i, usedRenderers, algorithmMask, runLimit, runs,
                   earlier, fbAtCall>>
    /\ endT' = (IF ClockEndRead = "normalize" THEN now ELSE endT)
    /\ TimePasses
    /\ UNCHANGED <<startT, time, lookupVars, sweepVars>>

\* The loop of lines 153-154 started at slot 1.
DeletedSlotsFromOne == Slots \ {0}

\* The slots the loop of lines 153-154 deletes.
DeletedSlots == Slots

\* render, lines 153-155: delete every renderer and the array.
Teardown ==
    /\ pc = "teardown"
    /\ renderers' = [s \in Slots |->
                       IF s \in DeletedSlots
                       THEN [renderers[s] EXCEPT !.alive = FALSE,
                                                 !.deleted = @ + 1]
                       ELSE renderers[s]]
    /\ pc' = "return"
    /\ UNCHANGED <<config, fbuffer, iterations, team, todo, running, log,
                   nCalls, i, usedRenderers, algorithmMask, runLimit, runs,
                   earlier, fbAtCall>>
    /\ TimePasses
    /\ UNCHANGED <<startT, endT, time, lookupVars, sweepVars>>

\* What is remembered of a finished run.
RunRecord ==
    [ config |-> config,
      seeds  |-> [s \in Slots |-> [seeded |-> renderers[s].seeded,
                                   seed   |-> renderers[s].seed]],
      log    |-> log,
      used   |-> usedRenderers,
      before |-> fbAtCall,
      result |-> fbuffer ]

\* render, line 157, and main, lines 243-257: render returns the elapsed
\* time; main saves the framebuffer and writes the report entry with
\* GetAcronym() and GetName().
Return ==
    /\ pc = "return"
    /\ time' = endT - startT
    /\ \E str \in GetAcronym(config.mAlgorithm) : acronym' = str
    /\ \E str \in GetName(config.mAlgorithm) : name' = str
    /\ tableIndex' = TableIndex(config.mAlgorithm)
    /\ pc' = IF "<fault>" \in {acronym', name'} THEN "crashed" ELSE "main"
    /\ runs' = runs + 1
    /\ earlier' \in (IF earlier = << >> THEN {<< >>, <<RunRecord>>}
                                        ELSE {earlier})
    /\ renderers' = << >>
    /\ running' = << >>
    /\ UNCHANGED <<config, fbuffer, iterations, team, todo, log, nCalls, i,
                   usedRenderers, algorithmMask, runLimit, fbAtCall>>
    /\ passCalls' = passCalls + 1
    /\ UNCHANGED <<now, startT, endT, sceneId2, algId, glossy, heading,
                   passes>>

Next ==
    \/ CallRender
    \/ Construct
    \/ ApplyMaxPathLength
    \/ Fork
    \/ \E th \in Threads : \E iter \in todo : StartIteration(th, iter)
    \/ \E th \in Threads : FinishIteration(th)
    \/ Join
    \/ MergeStep
    \/ Normalize
    \/ Teardown
    \/ Return

Spec == Init /\ [][Next]_vars

\* One algorithm of each renderer family.
OnePerFamily == {kEyeLight, kPathTracing, kVertexConnectionMerging}

\* The driver calling render several times on one Config and Framebuffer,
\* as the loops of main do, with the mask enabling one algorithm per family.
InitBatch ==
    InitWith(0 .. BatchMaxIterations, 1 .. BatchMaxThreads, {1}, {10},
             {[p \in Pixels |-> FloatOfInt(p)]}, OnePerFamily, MaxRuns,
             "main")

SpecBatch == InitBatch /\ [][Next]_vars

\* The steps of the thread that runs main and render.
MainThread ==
    \/ CallRender
    \/ Construct
    \/ ApplyMaxPathLength
    \/ Fork
    \/ Join
    \/ MergeStep
    \/ Normalize
    \/ Teardown
    \/ Return

\* The steps of thread th of the team in the parallel loop.
Worker(th) ==
    /\ th \in Threads
    /\ \/ \E iter \in todo : StartIteration(th, iter)
       \/ FinishIteration(th)

InitFair ==
    InitWith(0 .. BatchMaxIterations, 1 .. BatchMaxThreads, {1}, {10},
             {[p \in Pixels |-> FloatOfInt(p)]}, Algorithms, 1, "main")

\* The main thread keeps running, every thread of the team is scheduled
\* and every RunIteration call returns.
SpecFair ==
    /\ InitFair
    /\ [][Next]_vars
    /\ WF_vars(MainThread)
    /\ \A th \in 0 .. (BatchMaxThreads - 1) : WF_vars(Worker(th))

\* Selector values of type Config::Algorithm that no case of the switch
\* handles: kAlgorithmMax itself and values cast from other integers.
UnknownSelectors == {-1, kAlgorithmMax, kAlgorithmMax + 1}

\* A caller that sets such a selector, prints GetName() and calls render.
CallUnchecked ==
    /\ runs < runLimit
    /\ \E alg \in UnknownSelectors : Call(alg)
    /\ UNCHANGED sweepVars

\* The places where render uses renderers[s]: line 123, line 130, lines
\* 137-145 and line 154.
UsesRenderers ==
    \/ pc \in {"setup", "teardown"}
    \/ pc = "dispatch" /\ todo # {}
    \/ pc = "merge" /\ i < config.mNumThreads

\* Using an uninitialised pointer is undefined: the run may go on with
\* whatever the pointer refers to (the other actions) or fault here.
WildDereference ==
    /\ UsesRenderers
    /\ \E s \in Slots : ~renderers[s].alive
    /\ pc' = "crashed"
    /\ UNCHANGED <<config, fbuffer, renderers, iterations, team, todo,
                   running, log, nCalls, i, usedRenderers, algorithmMask,
                   runLimit, runs, earlier, fbAtCall, timerVars, lookupVars,
                   sweepVars>>

NextAnySelector ==
    \/ Next
    \/ CallUnchecked
    \/ WildDereference

InitAnySelector ==
    InitWith(0 .. BatchMaxIterations, 1 .. BatchMaxThreads, {1}, {10},
             InitialFramebuffers, OnePerFamily, 1, "main")

SpecAnySelector == InitAnySelector /\ [][NextAnySelector]_vars

\* ------------------------------------------------------ the sweep of main
\* main, line 200: the number of entries of sceneConfigs (lines 183-198).
sceneConfigCount == 12

\* main, lines 219-220: whether Scene::kGlossyFloor is added to the mask.
GlossyFloor(sceneId) == sceneId < sceneConfigCount

\* main, lines 215-232: a pass of the scene loop begins; the scene is
\* loaded, given to the configuration, and the heading is written.
BeginScenePass ==
    /\ pc = "scene"
    /\ sceneId2 < sceneConfigCount * 2
    /\ LET sceneId == sceneId2 % sceneConfigCount
           scene   == LoadCornellBox(sceneId, GlossyFloor(sceneId))
       IN  /\ config' = [config EXCEPT !.mScene = scene]
           /\ glossy' = scene.glossy
           /\ heading' = (IF scene.glossy THEN "Glossy" ELSE "plain")
    /\ algId' = 0
    /\ passCalls' = 0
    /\ pc' = "main"
    /\ UNCHANGED <<fbuffer, renderers, iterations, team, todo, running, log,
                   nCalls, i, usedRenderers, algorithmMask, runLimit, runs,
                   earlier, fbAtCall, timerVars, lookupVars, sceneId2,
                   passes>>

\* main, lines 237-243: the algorithm loop calls render for an enabled
\* algorithm; algId is stepped here, config.mAlgorithm holds the running
\* algorithm until render has returned.
SweepCallRender ==
    /\ algId < kAlgorithmMax
    /\ algId \in algorithmMask
    /\ Call(algId)
    /\ algId' = algId + 1
    /\ UNCHANGED <<sceneId2, glossy, heading, passCalls, passes>>

\* main, line 239: a disabled algorithm is skipped.
SweepSkip ==
    /\ pc = "main"
    /\ algId < kAlgorithmMax
    /\ algId \notin algorithmMask
    /\ algId' = algId + 1
    /\ UNCHANGED <<config, fbuffer, pc, renderers, iterations, team, todo,
                   running, log, nCalls, i, usedRenderers, algorithmMask,
                   runLimit, runs, earlier, fbAtCall, timerVars, lookupVars,
                   sceneId2, glossy, heading, passCalls, passes>>

\* What the report holds about a finished pass.
PassRecord ==
    [ sceneId2 |-> sceneId2,
      sceneId  |-> sceneId2 % sceneConfigCount,
      glossy   |-> glossy,
      heading  |-> heading,
      calls    |-> passCalls ]

\* main, lines 237 and 259-261: the algorithm loop ends, the table is
\* closed and the scene loop steps sceneId2.
EndScenePass ==
    /\ pc = "main"
    /\ algId >= kAlgorithmMax
    /\ passes' = passes \cup {PassRecord}
    /\ sceneId2' = sceneId2 + 1
    /\ pc' = "scene"
    /\ UNCHANGED <<config, fbuffer, renderers, iterations, team, todo,
                   running, log, nCalls, i, usedRenderers, algorithmMask,
                   runLimit, runs, earlier, fbAtCall, timerVars, lookupVars,
                   algId, glossy, heading, passCalls>>

\* main, lines 215 and 262: the scene loop ends and main returns.
EndSweep ==
    /\ pc = "scene"
    /\ sceneId2 >= sceneConfigCount * 2
    /\ pc' = "done"
    /\ UNCHANGED <<config, fbuffer, renderers, iterations, team, todo,
                   running, log, nCalls, i, usedRenderers, algorithmMask,
                   runLimit, runs, earlier, fbAtCall, timerVars, lookupVars,
                   sweepVars>>

NextSweep ==
    \/ BeginScenePass
    \/ SweepCallRender
    \/ SweepSkip
    \/ EndScenePass
    \/ EndSweep
    \/ Construct
    \/ ApplyMaxPathLength
    \/ Fork
    \/ \E th \in Threads : \E iter \in todo : StartIteration(th, iter)
    \/ \E th \in Threads : FinishIteration(th)
    \/ Join
    \/ MergeStep
    \/ Normalize
    \/ Teardown
    \/ Return

\* main, lines 202-213 with a budget of one iteration and one thread; the
\* mask of line 213 enables every algorithm, a mask with disabled entries
\* is taken as well.
InitSweep ==
    \E mask \in {Algorithms, OnePerFamily} :
        InitWith({1}, {1}, {1234}, {10},
                 {[p \in Pixels |-> FloatOfInt(0)]}, mask,
                 2 * sceneConfigCount * kAlgorithmMax, "scene")

SpecSweep == InitSweep /\ [][NextSweep]_vars

TypeOK ==
    /\ pc \in {"main", "construct", "setup", "fork", "dispatch", "merge",
               "teardown", "return", "crashed", "scene", "done"}
    /\ config.mAlgorithm \in Algorithms \cup UnknownSelectors
    /\ todo \subseteq IterationSpace(iterations)
    /\ nCalls \in Nat
    /\ usedRenderers \in 0 .. config.mNumThreads

\* ---------------------------------------------------------------- claims
AfterBarrier == pc \in {"merge", "teardown", "return"}

CallsOfIndex(k) == {r \in log : r.iter = k}

\* C1: once the dispatch phase has ended, a run whose dispatcher was given
\* I >= 1 iterations has made exactly I RunIteration calls, one for each index
\* 0..I-1 and made by one thread; during dispatch no index is ever called
\* twice and no index outside 0..I-1 is called.
C1_EachIndexExactlyOnce ==
    /\ pc \in {"dispatch", "merge", "teardown", "return"}
         => /\ nCalls = Cardinality(log)
            /\ \A r \in log : r.iter \in 0 .. (iterations - 1)
            /\ \A k \in 0 .. (iterations - 1) : Cardinality(CallsOfIndex(k)) <= 1
    /\ (AfterBarrier /\ iterations >= 1)
         => /\ nCalls = iterations
            /\ \A k \in 0 .. (iterations - 1) : Cardinality(CallsOfIndex(k)) = 1

C1_Witness ==
    /\ pc = "merge"
    /\ iterations = 3
    /\ nCalls = 3
    /\ Cardinality({r.threadId : r \in log}) = 2

\* C2: every RunIteration call is made on the renderer in the calling
\* thread's own slot, and no renderer is ever run by two different threads,
\* whether at the same time or one after the other.
C2_OwnSlotOnly ==
    /\ \A r \in log : r.slot = r.threadId
    /\ \A r1, r2 \in log : r1.slot = r2.slot => r1.threadId = r2.threadId
    /\ pc = "dispatch"
         => \A t1, t2 \in Threads :
              (running[t1] # Idle /\ running[t2] # Idle /\ t1 # t2)
                => \E r1, r2 \in log :
                     /\ r1.threadId = t1 /\ r1.iter = running[t1]
                     /\ r2.threadId = t2 /\ r2.iter = running[t2]
                     /\ r1.slot # r2.slot

C2_Witness ==
    /\ pc = "dispatch"
    /\ \E t1, t2 \in Threads :
         /\ t1 # t2
         /\ running[t1] # Idle
         /\ running[t2] # Idle
         /\ \E r \in log : r.threadId = t1 /\ r.iter # running[t1]

UsedSlots == {s \in Slots : renderers[s].used}

RECURSIVE SumOfPartials(_, _)
SumOfPartials(S, p) ==
    IF S = {} THEN 0
    ELSE LET s == CHOOSE x \in S : TRUE
         IN  renderers[s].partial[p] + SumOfPartials(S \ {s}, p)

\* The exact quotient a / b, b > 0, as a pixel value.
Quotient(a, b) ==
    CHOOSE q \in {[n |-> x, d |-> y] : x \in 0 .. Abs(a), y \in 1 .. b} :
        /\ q.n * b = Abs(a) * q.d
        /\ \A y \in 1 .. (q.d - 1) : (Abs(a) * y) % b # 0

\* C3: after the normalisation of a run with a non-empty set U of used
\* renderers, every element of the framebuffer is the sum of the partial
\* buffers of the renderers in U divided by |U|.
C3_MeanOfUsed ==
    (pc \in {"teardown", "return"} /\ UsedSlots # {})
      => \A p \in Pixels :
           fbuffer[p] = Quotient(SumOfPartials(UsedSlots, p),
                                 Cardinality(UsedSlots))

\* The aggregation example: partial buffers [2,4] and [6,0] give [4,2], with
\* a third renderer, when there is one, left unused.
C3_Witness ==
    /\ pc = "teardown"
    /\ config.mNumThreads >= 2
    /\ UsedSlots = {0, 1}
    /\ renderers[0].partial[1] = 2 /\ renderers[0].partial[2] = 4
    /\ renderers[1].partial[1] = 6 /\ renderers[1].partial[2] = 0
    /\ fbuffer[1] = [n |-> 4, d |-> 1]
    /\ fbuffer[2] = [n |-> 2, d |-> 1]

\* C4: a run in which no renderer executed an iteration never reaches the
\* normalisation, the teardown or the return: it ends in an error instead.
C4_EmptyResultIsAnError ==
    pc \in {"teardown", "return"} => UsedSlots # {}

Constructed ==
    pc \in {"setup", "fork", "dispatch", "merge", "teardown", "return"}

SeedsInUse == {renderers[s].seed : s \in Slots}

\* C5 as stated: for every algorithm, the renderer of slot s is constructed
\* with the seed mBaseSeed + s.
C5_EverySlotSeeded ==
    Constructed
      => \A s \in Slots : /\ renderers[s].seeded
                          /\ renderers[s].seed = config.mBaseSeed + s

\* C5 amended: for every algorithm except kEyeLight the renderer of slot s is
\* constructed with the seed mBaseSeed + s, so the seeds of a run are exactly
\* mBaseSeed .. mBaseSeed + W - 1 and pairwise distinct; the kEyeLight
\* renderers are constructed without a seed argument.
C5_SeededExceptEyeLight ==
    Constructed
      => IF config.mAlgorithm = kEyeLight
         THEN \A s \in Slots : ~renderers[s].seeded
         ELSE /\ \A s \in Slots : /\ renderers[s].seeded
                                  /\ renderers[s].seed = config.mBaseSeed + s
              /\ SeedsInUse = config.mBaseSeed ..
                                (config.mBaseSeed + config.mNumThreads - 1)
              /\ Cardinality(SeedsInUse) = config.mNumThreads

C5_Witness ==
    /\ pc = "fork"
    /\ config.mAlgorithm = kVertexConnectionMerging
    /\ config.mNumThreads = 3
    /\ SeedsInUse = {4, 5, 6}

\* C6: a kEyeLight run makes one RunIteration call, with index 0, whatever
\* the configured iteration count; a run of any other algorithm makes the
\* configured number of calls, for the indices 0..mIterations-1.
C6_SinglePass ==
    AfterBarrier
      => IF config.mAlgorithm = kEyeLight
         THEN /\ nCalls = 1
              /\ {r.iter : r \in log} = {0}
         ELSE /\ iterations = config.mIterations
              /\ nCalls = config.mIterations
              /\ {r.iter : r \in log} = 0 .. (config.mIterations - 1)

C6_Witness ==
    /\ pc = "merge"
    /\ config.mAlgorithm = kEyeLight
    /\ config.mIterations = 3
    /\ nCalls = 1

NoCallInProgress == \A th \in DOMAIN running : running[th] = Idle

\* C7: the framebuffer keeps the content it had at the call until the
\* barrier is passed; a RunIteration call is in progress only during
\* dispatch; and the merge, the teardown and the return happen only when
\* every index has been handed out and every call has returned.
C7_MergeAfterBarrier ==
    /\ pc \in {"construct", "setup", "fork", "dispatch"} => fbuffer = fbAtCall
    /\ pc # "dispatch" => NoCallInProgress
    /\ AfterBarrier => /\ todo = {}
                       /\ NoCallInProgress
                       /\ nCalls = Cardinality(IterationSpace(iterations))

C7_Witness ==
    /\ pc = "merge"
    /\ i >= 1
    /\ fbuffer # fbAtCall
    /\ Cardinality({r.threadId : r \in log}) >= 2

SameConfiguration == earlier # << >> /\ earlier[1].config = config

SameSeeds ==
    \A s \in Slots : /\ earlier[1].seeds[s].seeded = renderers[s].seeded
                     /\ earlier[1].seeds[s].seed = renderers[s].seed

Executed == {r.threadId : r \in log}

Min(a, b) == IF a < b THEN a ELSE b

\* C9: after the barrier a renderer is used iff its thread executed at least
\* one index; when the configured iteration count is at least 1 the number
\* of merged renderers is the number of such threads, lies between 1 and
\* min(W, I), and every framebuffer element is finite and is the mean of the
\* partial buffers of exactly those threads.
C9_UsedIffExecuted ==
    /\ AfterBarrier
         => \A s \in Slots : renderers[s].used <=> s \in Executed
    /\ (pc \in {"teardown", "return"} /\ config.mIterations >= 1)
         => /\ usedRenderers = Cardinality(Executed)
            /\ usedRenderers >= 1
            /\ usedRenderers <= Min(config.mNumThreads, config.mIterations)
            /\ \A p \in Pixels :
                 /\ IsFinite(fbuffer[p])
                 /\ fbuffer[p].n * usedRenderers
                      = fbuffer[p].d * SumOfPartials(Executed, p)

C9_Witness ==
    /\ pc = "teardown"
    /\ config.mNumThreads = 3
    /\ config.mIterations = 3
    /\ team = 3
    /\ Executed = {0, 2}
    /\ usedRenderers = 2

\* C10: from the end of the setup on, and so at every RunIteration call,
\* every renderer of the run holds the configured maximal path length.
C10_PathLengthApplied ==
    /\ pc \in {"fork", "dispatch", "merge", "teardown"}
         => \A s \in Slots :
              renderers[s].mMaxPathLength = config.mMaxPathLength
    /\ pc = "dispatch"
         => \A r \in log :
              renderers[r.slot].mMaxPathLength = config.mMaxPathLength

C10_Witness ==
    /\ pc = "dispatch"
    /\ config.mMaxPathLength = 10
    /\ config.mNumThreads >= 2
    /\ nCalls = 0
    /\ \A s \in Slots : renderers[s].mMaxPathLength = 10

\* C11: a run whose selector is none of the seven algorithms stops with an
\* error before anything else happens: the array never holds an
\* unconstructed slot, no iteration is executed and the framebuffer is not
\* written.
C11_UnknownSelectorIsFatal ==
    config.mAlgorithm \notin Algorithms
      => /\ \A s \in DOMAIN renderers : renderers[s].alive
         /\ nCalls = 0
         /\ fbuffer = fbAtCall

\* What lines 134-151 leave in a framebuffer that held fb when render was
\* called, given the renderers as they are after the dispatch.
RECURSIVE MergeFrom(_, _, _)
MergeFrom(fb, used, s) ==
    IF s >= config.mNumThreads
    THEN Scale(fb, FloatInverse(Divisor(used, config.mNumThreads)))
    ELSE IF Contributes(renderers[s])
         THEN MergeFrom(Merged(fb, renderers[s], used), used + 1, s + 1)
         ELSE MergeFrom(fb, used, s + 1)

\* C12: the framebuffer a run ends with is the one it would have ended with
\* had the caller's framebuffer held any other content before the run.
C12_IndependentOfPreviousContent ==
    pc \in {"teardown", "return"}
      => \A fb \in InitialFramebuffers : MergeFrom(fb, 0, 0) = fbuffer

\* The same, for the runs in which at least one renderer was used.
C12_IndependentWhenUsed ==
    (pc \in {"teardown", "return"} /\ usedRenderers >= 1)
      => \A fb \in InitialFramebuffers : MergeFrom(fb, 0, 0) = fbuffer

WorkerSlots == 0 .. (config.mNumThreads - 1)

\* C13: from the end of the construction to the end of the merge there is
\* exactly one live renderer in each slot 0..W-1, created once and not yet
\* deleted; when render returns each of them has been deleted exactly once
\* and none is alive; before the construction and after the return the run
\* has no renderer at all.
C13_OneRendererPerSlot ==
    /\ pc \in {"setup", "fork", "dispatch", "merge", "teardown"}
         => /\ DOMAIN renderers = WorkerSlots
            /\ \A s \in WorkerSlots : /\ renderers[s].alive
                                      /\ renderers[s].created = 1
                                      /\ renderers[s].deleted = 0
    /\ pc = "return"
         => /\ DOMAIN renderers = WorkerSlots
            /\ \A s \in WorkerSlots : /\ ~renderers[s].alive
                                      /\ renderers[s].created = 1
                                      /\ renderers[s].deleted = 1
    /\ pc \in {"main", "construct"} => renderers = << >>

C13_Witness ==
    /\ pc = "return"
    /\ config.mNumThreads = 3
    /\ nCalls = 3
    /\ usedRenderers = 2
    /\ \A s \in WorkerSlots : renderers[s].deleted = 1

\* The state after a run that went through all its phases.
RunCompleted ==
    /\ pc = "main"
    /\ runs >= 1
    /\ todo = {}
    /\ nCalls = Cardinality(0 .. (iterations - 1))
    /\ renderers = << >>
    /\ time = endT - startT

\* C14: with the main thread and the threads of the team scheduled fairly,
\* from every state inside render the run goes on to its end: all indices
\* are processed, the barrier is passed, merge and teardown run and render
\* returns.
C14_RunCompletes == (pc # "main") ~> RunCompleted

C14_Witness ==
    /\ RunCompleted
    /\ nCalls = 2
    /\ team = 2
    /\ Cardinality({r.threadId : r \in log}) = 2

\* Every slot holds a live renderer with the configured path-length bound.
AllConstructedAndBounded ==
    \A s \in WorkerSlots :
        /\ s \in DOMAIN renderers
        /\ renderers[s].alive
        /\ renderers[s].mMaxPathLength = config.mMaxPathLength

\* No RunIteration call has started yet.
BeforeFirstCall == nCalls = 0 /\ log = {}

\* Every RunIteration call of the run has been made and has returned.
AfterLastCall ==
    /\ nCalls = Cardinality(0 .. (iterations - 1))
    /\ todo = {}
    /\ \A th \in DOMAIN running : running[th] = Idle
    /\ \A s \in WorkerSlots : renderers[s].used <=> \E r \in log : r.slot = s

\* C15: the step that reads the start time happens with all renderers
\* constructed and bounded and before any RunIteration call; the step that
\* reads the end time happens after the last call has returned and before
\* the merge loop has visited a slot; the elapsed value is the difference
\* of the two, set when render returns; no step that writes a timer
\* variable changes the framebuffer.
C15_TimerBracketsDispatch ==
    [][/\ (startT' # startT /\ startT' # NotRead)
            => /\ AllConstructedAndBounded
               /\ BeforeFirstCall
               /\ BeforeFirstCall'
               /\ endT = NotRead
       /\ (endT' # endT /\ endT' # NotRead)
            => /\ startT # NotRead
               /\ endT' >= startT
               /\ AfterLastCall
               /\ pc' = "merge"
               /\ i' = 0
               /\ usedRenderers' = 0
               /\ fbuffer = fbAtCall
       /\ (time' # time /\ time' # NotRead)
            => /\ time' = endT - startT
               /\ pc' = "main"
               /\ runs' = runs + 1
       /\ (startT' # startT \/ endT' # endT \/ time' # time)
            => fbuffer' = fbuffer
      ]_vars

C15_Witness ==
    /\ pc = "return"
    /\ startT # NotRead
    /\ endT - startT >= 3
    /\ nCalls >= 2
    /\ usedRenderers >= 2
    /\ fbuffer # fbAtCall

C17_LookupsWithinTables ==
    /\ tableIndex # NoIndex => tableIndex \in 0 .. (Len(algorithmNames) - 1)
    /\ (config.mAlgorithm \notin 0 .. 6 /\ name # "")
         => name = "Uknown algorithm"
    /\ (config.mAlgorithm \notin 0 .. 6 /\ acronym # "")
         => acronym = "uknown"

\* C18: the team of the parallel loop has between 1 and mNumThreads
\* threads, every thread number that selected a renderer lies in
\* 0..mNumThreads-1 and selected one of the constructed slots, and the
\* slots of thread numbers the team does not have stay unused.
C18_ThreadIdsWithinSlots ==
    /\ pc \in {"dispatch", "merge", "normalize", "teardown", "return"}
         => /\ team \in 1 .. config.mNumThreads
            /\ DOMAIN running \subseteq WorkerSlots
            /\ DOMAIN renderers = WorkerSlots
            /\ \A r \in log : r.slot \in DOMAIN renderers
            /\ \A s \in WorkerSlots : s >= team => ~renderers[s].used
    /\ \A r \in log :
         /\ r.threadId \in WorkerSlots
         /\ r.slot = r.threadId

C18_Witness ==
    /\ pc = "merge"
    /\ config.mNumThreads = 3
    /\ team = 2
    /\ {r.threadId : r \in log} = {0, 1}
    /\ ~renderers[2].used
    /\ renderers[0].used /\ renderers[1].used

\* The finished passes made for scene configuration sc.
PassesOf(sc) == {p \in passes : p.sceneId = sc}

\* C19: when the sweep has ended it has made 2 x 12 passes, each with one
\* render call per enabled algorithm, and every scene configuration had
\* two passes, one with the glossy floor under the "Glossy" heading and
\* one without it under the plain heading.
C19_SweepCoversBothFloors ==
    pc = "done"
      => /\ Cardinality(passes) = 2 * sceneConfigCount
         /\ \A p \in passes : p.calls = Cardinality(algorithmMask)
         /\ runs = 2 * sceneConfigCount * Cardinality(algorithmMask)
         /\ \A sc \in 0 .. (sceneConfigCount - 1) :
              /\ Cardinality(PassesOf(sc)) = 2
              /\ \E p \in PassesOf(sc) : p.glossy /\ p.heading = "Glossy"
              /\ \E p \in PassesOf(sc) : ~p.glossy /\ p.heading = "plain"

\* The part of C19 about the number of passes and calls.
C19_PassAndCallCounts ==
    pc = "done"
      => /\ Cardinality(passes) = 2 * sceneConfigCount
         /\ \A p \in passes : p.calls = Cardinality(algorithmMask)
         /\ runs = 2 * sceneConfigCount * Cardinality(algorithmMask)
         /\ \A sc \in 0 .. (sceneConfigCount - 1) :
              Cardinality(PassesOf(sc)) = 2

====
